---- MODULE Spec2Model ----
(***************************************************************************)
(* Model of the pyBNF convenience layer of PhilippJunk/optimizations:      *)
(*   custom_classes.py  CustomData, NpModel, CustomConfiguration,          *)
(*                      FakeCluster, MockClient, new_custom_as_completed   *)
(*   interface.py       ParamConfig, AlgConfig_*, GeneralConfig,           *)
(*                      run_simple_optimization, parse_outputs             *)
(*                                                                         *)
(* Seven specifications share the variables; each holds the variables of  *)
(* the other components at their idle values:                              *)
(*   Spec       the dataset adapter on small dense arrays                  *)
(*   SpecNames  the same operations on wide arrays and parameter lists     *)
(*   SpecConfig CustomConfiguration.__init__ on arbitrary dictionaries     *)
(*   SpecMock   MockClient: submit, scatter, cancel                        *)
(*   SpecAac    new_custom_as_completed: construction, update, __next__    *)
(*   SpecRun    run_simple_optimization, statement by statement            *)
(*   SpecModel  NpModel objects: construction, copy, change, execute       *)
(***************************************************************************)
EXTENDS Integers, Sequences, FiniteSets, TLC

VARIABLES
    \* dataset adapter / model wrapper
    x_in, y_in,        \* the arguments of CustomData.from_x_and_y
    out,               \* the CustomData object it returned
    raised,            \* the exception from_x_and_y raised
    data_arr,          \* what CustomData.get_data_arr returned
    params_in,         \* ParamConfig.params
    param_d,           \* the dictionary ParamConfig.update_param_dict filled
    np_model,          \* the NpModel built by CustomConfiguration._load_models
    \* CustomConfiguration.__init__
    cfg_d,             \* the dictionary d handed to the constructor
    cfg_res,           \* what the constructor did with it
    \* MockClient / new_custom_as_completed
    handles,           \* the futures MockClient.submit has returned so far
    submit_call,       \* the last submit call: func, args, kwargs
    submit_out,        \* what that call returned or raised
    aac,               \* the new_custom_as_completed object
    added,             \* history: every handle given to it, in order
    yielded,           \* history: every handle __next__ returned, in order
    next_out,          \* what the last __next__ returned or raised
    last_op,           \* the last operation on the iterator
    \* run_simple_optimization
    rpc,               \* the statement of run_simple_optimization to execute next
    gconf,             \* the GeneralConfig argument
    param_dict,        \* param_dict (the very dict CustomConfiguration receives)
    pybnf_config,      \* the CustomConfiguration object
    alg,               \* the algorithm object selected by the match statement
    cluster_client,    \* cluster.client handed to alg.run
    fs,                \* the paths that exist under and including output_dir
    trace,             \* history: the statements executed, in order
    exc,               \* the exception that left run_simple_optimization
    output,            \* the local variable output (what the call returns)
    \* NpModel objects
    arrays,            \* the ndarray objects NpModel instances hold, by identity
    model_objs,        \* the NpModel objects, by identity; data is an index of arrays
    model_op,          \* the last operation on a model and its arguments
    before,            \* history: what each model showed before that operation
    exec_out           \* what the last NpModel.execute returned or raised

data_vars == <<x_in, y_in, out, raised, data_arr, params_in, param_d, np_model>>
cfg_vars  == <<cfg_d, cfg_res>>
mock_vars == <<handles, submit_call, submit_out, aac, added, yielded, next_out, last_op>>
run_vars  == <<rpc, gconf, param_dict, pybnf_config, alg, cluster_client,
               fs, trace, exc, output>>
model_vars == <<arrays, model_objs, model_op, before, exec_out>>
vars == <<data_vars, cfg_vars, mock_vars, run_vars, model_vars>>

None == [kind |-> "None"]

(***************************************************************************)
(* Bounds of the model.                                                    *)
(***************************************************************************)
MaxRows == 2
MaxCols == 2
MaxWide == 11
MaxParams == 11
MaxHandles == 3
MaxAdded == 4
MaxIter == 2
MaxModels == 2
MaxWrites == 1

(***************************************************************************)
(* Sequences.                                                              *)
(***************************************************************************)
RECURSIVE Concat(_)
Concat(ss) == IF Len(ss) = 0 THEN << >> ELSE Head(ss) \o Concat(Tail(ss))

Range0(n) == [i \in 1..n |-> i - 1]

(***************************************************************************)
(* Strings are sequences of one-character strings, so that str.startswith, *)
(* the format specification 0{10}d and the lexicographic order of str can  *)
(* be computed.  Ord gives the code point of the characters in use.        *)
(***************************************************************************)
Ord(c) ==
    CASE c = "0" -> 48 [] c = "1" -> 49 [] c = "2" -> 50 [] c = "3" -> 51
      [] c = "4" -> 52 [] c = "5" -> 53 [] c = "6" -> 54 [] c = "7" -> 55
      [] c = "8" -> 56 [] c = "9" -> 57
      [] c = "E" -> 69 [] c = "F" -> 70 [] c = "R" -> 82 [] c = "_" -> 95
      [] c = "e" -> 101 [] c = "i" -> 105 [] c = "m" -> 109 [] c = "t" -> 116
      [] c = "v" -> 118 [] c = "x" -> 120 [] c = "y" -> 121

DigitChar(k) ==
    CASE k = 0 -> "0" [] k = 1 -> "1" [] k = 2 -> "2" [] k = 3 -> "3"
      [] k = 4 -> "4" [] k = 5 -> "5" [] k = 6 -> "6" [] k = 7 -> "7"
      [] k = 8 -> "8" [] k = 9 -> "9"

\* str(i) for i >= 0: the decimal digits, most significant first
RECURSIVE Digits(_)
Digits(i) == IF i < 10 THEN <<DigitChar(i)>>
             ELSE Digits(i \div 10) \o <<DigitChar(i % 10)>>

RECURSIVE ZeroFill(_, _)
ZeroFill(s, w) == IF Len(s) >= w THEN s ELSE ZeroFill(<<"0">> \o s, w)

FormatUnpadded(i, w) == Digits(i)

\* f"{i:0{w}d}": decimal, padded with zeros on the left to at least w characters
FormatZeroPadded(i, w) == ZeroFill(Digits(i), w)

\* str.__lt__: lexicographic by code point, a proper prefix is smaller
RECURSIVE StrLess(_, _)
StrLess(a, b) ==
    IF Len(b) = 0 THEN FALSE
    ELSE IF Len(a) = 0 THEN TRUE
    ELSE IF Ord(Head(a)) # Ord(Head(b)) THEN Ord(Head(a)) < Ord(Head(b))
    ELSE StrLess(Tail(a), Tail(b))

StartsWith(s, c) == Len(s) >= 1 /\ s[1] = c

TimeName == <<"t", "i", "m", "e">>

(***************************************************************************)
(* numpy arrays: a shape and the elements in row-major order.              *)
(***************************************************************************)
NdArray(shape, flat) == [kind |-> "ndarray", shape |-> shape, flat |-> flat]

ndim(a) == Len(a.shape)

\* element (r, c) of a 2D array, both 0-based
At(a, r, c) == a.flat[r * a.shape[2] + c + 1]

arange_from_one(n) == NdArray(<<n>>, [i \in 1..n |-> i])

\* np.arange(n)
arange(n) == NdArray(<<n>>, Range0(n))

\* np.atleast_2d: a 1D array of length n becomes one row (1, n)
atleast_2d(a) ==
    IF ndim(a) = 0 THEN NdArray(<<1, 1>>, a.flat)
    ELSE IF ndim(a) = 1 THEN NdArray(<<1, a.shape[1]>>, a.flat)
    ELSE a

\* a.T of a 2D array
Transpose(a) ==
    LET n == a.shape[1]
        m == a.shape[2]
    IN NdArray(<<m, n>>,
               [k \in 1..(m * n) |-> At(a, (k - 1) % n, (k - 1) \div n)])

RowOf(a, r) == SubSeq(a.flat, r * a.shape[2] + 1, (r + 1) * a.shape[2])

RECURSIVE SumCols(_)
SumCols(arrs) == IF Len(arrs) = 0 THEN 0
                 ELSE Head(arrs).shape[2] + SumCols(Tail(arrs))

\* np.hstack of 2D arrays with the same number of rows
hstack(arrs) ==
    LET n == arrs[1].shape[1]
    IN NdArray(<<n, SumCols(arrs)>>,
               Concat([r \in 1..n |->
                         Concat([k \in 1..Len(arrs) |-> RowOf(arrs[k], r - 1)])]))

\* a[:, idxs] of a 2D array, idxs a list of 0-based column indices
TakeCols(a, idxs) ==
    LET n == a.shape[1]
        m == Len(idxs)
    IN NdArray(<<n, m>>,
               [k \in 1..(n * m) |-> At(a, (k - 1) \div m, idxs[((k - 1) % m) + 1])])

(***************************************************************************)
(* Exceptions.                                                             *)
(***************************************************************************)
Exc(type, msg) == [kind |-> "exception", type |-> type, msg |-> msg]

(***************************************************************************)
(* dict: a function from keys to values.                                   *)
(***************************************************************************)
EmptyDict == << >>

Has(d, k) == k \in DOMAIN d

DictSet(d, k, v) == [j \in (DOMAIN d) \cup {k} |-> IF j = k THEN v ELSE d[j]]

DictDel(d, k) == [j \in (DOMAIN d) \ {k} |-> d[j]]

\* d.update(e)
DictUpdate(d, e) ==
    [j \in (DOMAIN d) \cup (DOMAIN e) |-> IF j \in DOMAIN e THEN e[j] ELSE d[j]]

(***************************************************************************)
(* CustomData (custom_classes.py).                                         *)
(***************************************************************************)
\* f"x{i:0{10}d}" and f"y{i:0{10}d}" of from_x_and_y
XColName(i) == <<"x">> \o FormatZeroPadded(i, 10)

YColName(i) == <<"y">> \o FormatZeroPadded(i, 10)

\* colnames of from_x_and_y
Colnames(ncols_x, ncols_y) ==
    <<TimeName>> \o [i \in 1..ncols_x |-> XColName(i - 1)]
                 \o [i \in 1..ncols_y |-> YColName(i - 1)]

\* {c: i for i, c in enumerate(colnames)}: a later duplicate wins
ColsDict(colnames) ==
    [c \in {colnames[k] : k \in 1..Len(colnames)} |->
        (CHOOSE k \in 1..Len(colnames) :
            colnames[k] = c /\ \A j \in (k + 1)..Len(colnames) : colnames[j] # c) - 1]

\* {i: c for i, c in enumerate(colnames)}
HeadersDict(colnames) == [i \in 0..(Len(colnames) - 1) |-> colnames[i + 1]]

\* cls(arr=...) followed by the header initialisation
MakeData(arr, colnames) ==
    [kind |-> "CustomData", _data |-> arr, cols |-> ColsDict(colnames),
     headers |-> HeadersDict(colnames), indvar |-> TimeName]

Returned(v) == [ret |-> v, exc |-> None]

Raising(e) == [ret |-> None, exc |-> e]

RowsDiffer_one_sided(x, y) == x.shape[1] > y.shape[1]

\* the row-count test of from_x_and_y
RowsDiffer(x, y) == x.shape[1] # y.shape[1]

\* the dimensionality test of from_x_and_y
TooManyDims(x, y) == ndim(x) > 2 \/ ndim(y) > 2

\* CustomData.from_x_and_y(x, y)
from_x_and_y(xa, ya) ==
    LET x == IF ndim(xa) = 1 THEN Transpose(atleast_2d(xa)) ELSE xa
        y == IF ndim(ya) = 1 THEN Transpose(atleast_2d(ya)) ELSE ya
    IN IF ndim(x) = 0 \/ ndim(y) = 0
       THEN Raising(Exc("IndexError", "tuple index out of range"))
       ELSE IF RowsDiffer(x, y)
       THEN Raising(Exc("ValueError", "different number of observations"))
       ELSE IF TooManyDims(x, y)
       THEN Raising(Exc("ValueError", "wrong dimensionality (>2)"))
       ELSE LET t == Transpose(atleast_2d(arange(x.shape[1])))
                xy == hstack(<<t, x, y>>)
            IN Returned(MakeData(xy, Colnames(x.shape[2], y.shape[2])))

IsDataCol_not_output(col) == ~StartsWith(col, "y")

\* the column filter of get_data_arr
IsDataCol(col) == StartsWith(col, "x")

\* CustomData.get_data_arr(self)
get_data_arr(self) ==
    LET k == Cardinality(DOMAIN self.headers)
        data_indxs == SelectSeq(Range0(k), LAMBDA i : IsDataCol(self.headers[i]))
    IN TakeCols(self._data, data_indxs)

(***************************************************************************)
(* ParamConfig (interface.py) and NpModel (custom_classes.py).             *)
(***************************************************************************)
UniformParam(var_type, lower_bound, upper_bound) ==
    [var_type |-> var_type, lower_bound |-> lower_bound, upper_bound |-> upper_bound]

\* UniformParam.to_config_key_value_pair(self, i)
ConfigKeyName(i) == <<"v">> \o FormatZeroPadded(i, 10) \o <<"_", "_", "F", "R", "E", "E">>

to_config_key_value_pair(self, i) ==
    [key |-> <<self.var_type, ConfigKeyName(i)>>,
     value |-> <<self.lower_bound, self.upper_bound, TRUE>>]

\* all_equal_bounds(n_params, var_type, lower_bound, upper_bound).params
all_equal_bounds(n_params, var_type, lower_bound, upper_bound) ==
    [k \in 1..n_params |-> UniformParam(var_type, lower_bound, upper_bound)]

\* ParamConfig.update_param_dict: the tuple-keyed entries it writes into d
RECURSIVE update_param_vars(_, _, _)
update_param_vars(dv, params, i) ==
    IF i >= Len(params) THEN dv
    ELSE LET kv == to_config_key_value_pair(params[i + 1], i)
         IN update_param_vars(DictSet(dv, kv.key, kv.value), params, i + 1)

\* a configuration dictionary: the string-keyed options and the
\* (var_type, name)-keyed free parameters are kept apart
ConfigDict(opts, freevars) == [opts |-> opts, vars |-> freevars]

\* ParamConfig.update_param_dict(self, d)
update_param_dict(params, d) ==
    ConfigDict(DictSet(d.opts, "n_params", Len(params)),
               update_param_vars(d.vars, params, 0))

\* NpModel.param_names
ParamName(i) == <<"v">> \o FormatZeroPadded(i, 10) \o <<"_", "_", "F", "R", "E", "E">>

\* NpModel.__init__(self, fun, data, n_params, pset)
NpModelInit(fun, data, n_params, pset) ==
    [kind |-> "NpModel", fun |-> fun, data |-> get_data_arr(data), pset |-> pset,
     suffixes |-> <<<<"simulate", "_data">>>>, mutants |-> << >>,
     file_path |-> "_optimization", name |-> "_optimization",
     param_names |-> [k \in 1..n_params |-> ParamName(k - 1)]]

\* len(self._load_variables()): one variable per (var_type, name) key
NumVariables(d) == Cardinality(DOMAIN d.vars)

\* CustomConfiguration._load_models, the "np" branch
load_models_np(config, exp_data) ==
    NpModelInit(config.opts["_custom_func"], exp_data, NumVariables(config), None)

(***************************************************************************)
(* Inputs of the adapter.                                                  *)
(***************************************************************************)
Vals == {0, 1}

Zeros(n) == [k \in 1..n |-> 0]

Counting(n, base) == [k \in 1..n |-> base + k]

YBases == {0, 5}

\* x: every array over Vals up to MaxRows x MaxCols, 0-D to 3-D
DenseX ==
    {NdArray(<< >>, <<v>>) : v \in Vals}
    \cup UNION {{NdArray(<<n>>, f) : f \in [1..n -> Vals]} : n \in 0..MaxRows}
    \cup UNION {{NdArray(<<n, c>>, f) : f \in [1..(n * c) -> Vals]}
                   : n \in 0..MaxRows, c \in 0..MaxCols}
    \cup {NdArray(<<n, c, 1>>, Zeros(n * c)) : n \in 0..MaxRows, c \in 1..MaxCols}

\* y: one array per shape and base
DenseY ==
    {NdArray(<< >>, <<b>>) : b \in YBases}
    \cup {NdArray(<<n>>, Counting(n, b)) : n \in 0..MaxRows, b \in YBases}
    \cup {NdArray(<<n, c>>, Counting(n * c, b))
             : n \in 0..MaxRows, c \in 0..MaxCols, b \in YBases}
    \cup {NdArray(<<n, c, 1>>, Counting(n * c, b))
             : n \in 0..MaxRows, c \in 1..MaxCols, b \in YBases}

\* the shapes of the worked example: x of shape (10, 3), y of shape (10, 1)
ExampleX == NdArray(<<10, 3>>, Counting(30, 0))

ExampleY == NdArray(<<10, 1>>, Counting(10, 100))

\* the table made of the worked example
ExampleData == from_x_and_y(ExampleX, ExampleY).ret

\* one-row arrays with many columns
WideArrays == {NdArray(<<1, c>>, Counting(c, 0)) : c \in 0..MaxWide}

VarTypes == {"uniform_var", "loguniform_var"}

\* parameter lists whose bounds tell the positions apart
ParamLists ==
    {[k \in 1..n |-> UniformParam(vt, k - 1, k)] : n \in 0..MaxParams, vt \in VarTypes}

IdleData ==
    /\ x_in = None /\ y_in = None /\ out = None /\ raised = None
    /\ data_arr = None /\ params_in = << >>
    /\ param_d = None /\ np_model = None

(***************************************************************************)
(* Operations of the adapter.                                              *)
(***************************************************************************)
FromXAndY ==
    /\ out = None /\ raised = None
    /\ LET r == from_x_and_y(x_in, y_in)
       IN out' = r.ret /\ raised' = r.exc
    /\ UNCHANGED <<x_in, y_in, data_arr, params_in, param_d, np_model>>
    /\ UNCHANGED <<cfg_vars, model_vars, mock_vars, run_vars>>

GetDataArr ==
    /\ out # None /\ data_arr = None
    /\ data_arr' = get_data_arr(out)
    /\ UNCHANGED <<x_in, y_in, out, raised, params_in, param_d, np_model>>
    /\ UNCHANGED <<cfg_vars, model_vars, mock_vars, run_vars>>

\* GeneralConfig.generate_pybnf_config_dict up to the parameter entries
UpdateParamDict ==
    /\ out # None /\ param_d = None
    /\ param_d' = update_param_dict(params_in,
                     ConfigDict([k \in {"_custom_func", "_custom_data"} |->
                                    IF k = "_custom_func" THEN "func" ELSE out],
                                EmptyDict))
    /\ UNCHANGED <<x_in, y_in, out, raised, data_arr, params_in, np_model>>
    /\ UNCHANGED <<cfg_vars, model_vars, mock_vars, run_vars>>

\* CustomConfiguration._load_exp_data and _load_models on that dictionary
LoadModels ==
    /\ param_d # None /\ np_model = None
    /\ np_model' = load_models_np(param_d, param_d.opts["_custom_data"])
    /\ UNCHANGED <<x_in, y_in, out, raised, data_arr, params_in, param_d>>
    /\ UNCHANGED <<cfg_vars, model_vars, mock_vars, run_vars>>

NextData == FromXAndY \/ GetDataArr \/ UpdateParamDict \/ LoadModels

(***************************************************************************)
(* Idle values of the other components (filled in below).                  *)
(***************************************************************************)
IdleCfg == cfg_d = None /\ cfg_res = None

IdleModel ==
    /\ arrays = << >> /\ model_objs = << >> /\ model_op = None
    /\ before = << >> /\ exec_out = None

IdleMock ==
    /\ handles = << >> /\ submit_call = None /\ submit_out = None
    /\ aac = None /\ added = << >> /\ yielded = << >>
    /\ next_out = None /\ last_op = "none"

IdleRun ==
    /\ rpc = 0 /\ gconf = None /\ param_dict = None /\ pybnf_config = None
    /\ alg = None /\ cluster_client = None /\ fs = {}
    /\ trace = << >> /\ exc = None /\ output = None

(***************************************************************************)
(* Spec: the adapter on every small array.                                 *)
(***************************************************************************)
Init ==
    /\ x_in \in DenseX \cup {ExampleX} /\ y_in \in DenseY \cup {ExampleY}
    /\ params_in \in {all_equal_bounds(n, "uniform_var", 0, 1) : n \in 1..2}
    /\ out = None /\ raised = None /\ data_arr = None
    /\ param_d = None /\ np_model = None
    /\ IdleCfg /\ IdleMock /\ IdleRun /\ IdleModel

Next == NextData

Spec == Init /\ [][Next]_vars

(***************************************************************************)
(* SpecNames: the adapter on wide arrays and long parameter lists.         *)
(***************************************************************************)
InitNames ==
    /\ x_in \in WideArrays /\ y_in \in WideArrays
    /\ params_in \in ParamLists
    /\ out = None /\ raised = None /\ data_arr = None
    /\ param_d = None /\ np_model = None
    /\ IdleCfg /\ IdleMock /\ IdleRun /\ IdleModel

SpecNames == InitNames /\ [][NextData]_vars

(***************************************************************************)
(* Claims about the dataset adapter (checked under Spec).                  *)
(***************************************************************************)
AdapterActed == out # None \/ raised # None

NRows(a) == a.shape[1]

\* the columns of an input, a 1D array counting as one column
NCols(a) == IF ndim(a) = 1 THEN 1 ELSE a.shape[2]

\* element (r, c) of an input, 0-based, a 1D array being one column
Elem(a, r, c) == IF ndim(a) = 1 THEN a.flat[r + 1] ELSE At(a, r, c)

OneOrTwoDims(a) == ndim(a) \in {1, 2}

\* C1: for a 2D x and a 1D or 2D y with the same number of rows,
\* from_x_and_y succeeds and get_data_arr of its result is x itself: same
\* shape, same column order, same values (so neither the time column nor a
\* y column is part of it).
C1_RoundTrip ==
    (/\ AdapterActed
     /\ ndim(x_in) = 2 /\ OneOrTwoDims(y_in)
     /\ NRows(x_in) = NRows(y_in))
    => /\ raised = None /\ out # None
       /\ data_arr # None =>
            /\ data_arr.shape = x_in.shape
            /\ data_arr.flat = x_in.flat

\* a 2 x 2 input whose first column equals the time column was extracted
C1_Witness ==
    /\ data_arr # None
    /\ x_in.shape = <<2, 2>> /\ x_in.flat = <<0, 1, 1, 0>>
    /\ y_in.shape = <<2>>

\* C2: for x with n rows and cx columns and y with n rows and cy columns
\* the table has n rows and 1 + cx + cy columns: column 0 is named time and
\* holds 0..n-1, columns 1..cx hold x under names starting with x, columns
\* cx+1..cx+cy hold y under names starting with y; (10,3) and (10,1) give
\* 10 rows and 5 columns.
C2_TableLayout ==
    (/\ AdapterActed
     /\ OneOrTwoDims(x_in) /\ OneOrTwoDims(y_in)
     /\ NRows(x_in) = NRows(y_in))
    => /\ out # None
       /\ LET n == NRows(x_in)
              cx == NCols(x_in)
              cy == NCols(y_in)
              t == out._data
          IN /\ t.shape = <<n, 1 + cx + cy>>
             /\ DOMAIN out.headers = 0..(cx + cy)
             /\ out.headers[0] = TimeName /\ out.indvar = TimeName
             /\ \A r \in 0..(n - 1) :
                  /\ At(t, r, 0) = r
                  /\ \A j \in 0..(cx - 1) : At(t, r, 1 + j) = Elem(x_in, r, j)
                  /\ \A j \in 0..(cy - 1) : At(t, r, 1 + cx + j) = Elem(y_in, r, j)
             /\ \A j \in 0..(cx - 1) : StartsWith(out.headers[1 + j], "x")
             /\ \A j \in 0..(cy - 1) : StartsWith(out.headers[1 + cx + j], "y")
             /\ \A i \in DOMAIN out.headers : out.cols[out.headers[i]] = i
             /\ (x_in.shape = <<10, 3>> /\ y_in.shape = <<10, 1>>)
                   => t.shape = <<10, 5>>

\* the worked example was converted
C2_Witness ==
    /\ out # None
    /\ x_in.shape = <<10, 3>> /\ y_in.shape = <<10, 1>>
    /\ out._data.shape = <<10, 5>>

SameRole(a, b) == a[1] = b[1]

\* C10: the generated names sort lexicographically in index order: input
\* column names among themselves, output column names among themselves and
\* free-parameter names among themselves; and the name under which
\* update_param_dict stores the parameter at position k is param_names[k]
\* of the NpModel built from that dictionary.
C10_NamesSorted ==
    /\ out # None =>
         \A i, j \in DOMAIN out.headers :
            (i < j /\ i >= 1 /\ SameRole(out.headers[i], out.headers[j]))
               => StrLess(out.headers[i], out.headers[j])
    /\ np_model # None =>
         /\ Len(np_model.param_names) = Len(params_in)
         /\ \A i, j \in 1..Len(np_model.param_names) :
               i < j => StrLess(np_model.param_names[i], np_model.param_names[j])
         /\ \A k \in 1..Len(params_in) :
               LET key == <<params_in[k].var_type, np_model.param_names[k]>>
               IN /\ Has(param_d.vars, key)
                  /\ param_d.vars[key] =
                        <<params_in[k].lower_bound, params_in[k].upper_bound, TRUE>>

\* indices 9 and 10 are in use for inputs, outputs and parameters
C10_Witness ==
    /\ out # None /\ np_model # None
    /\ x_in.shape[2] >= 11 /\ y_in.shape[2] >= 11
    /\ Len(np_model.param_names) >= 11

(***************************************************************************)
(* CustomConfiguration.__init__ (custom_classes.py).                       *)
(***************************************************************************)
\* the names bound in the namespace of custom_classes.py: its imports
\* (lines 3-15), logger and the classes it defines
ModuleGlobals ==
    {"copy", "concurrent", "logging", "Callable", "np", "pybnf", "logger",
     "CustomData", "NpModel", "CustomConfiguration", "FakeCluster", "MockClient",
     "new_custom_as_completed"}

\* the builtin exception types the two files name
Builtins == {"ValueError", "StopIteration", "RuntimeError", "AssertionError",
             "KeyError", "NameError", "IndexError", "TypeError"}

\* raise <name>(msg): the name is looked up first; an unbound name raises
\* NameError in place of the exception meant
RaiseNamed(name, msg) ==
    IF name \in ModuleGlobals \cup Builtins THEN Exc(name, msg)
    ELSE Exc("NameError", name)

\* self._req_user_params() of pybnf.config.Configuration
ReqUserParams == {"models", "population_size", "max_iterations"}

\* the for loop collecting unspecified_keys
UnspecifiedKeys(d) == {k \in ReqUserParams : ~Has(d.opts, k)}

\* the steps of __init__ after validation, from default_config() on
LoadingSteps ==
    <<"default_config", "_load_exp_data", "_load_models", "_load_actions",
      "_load_simulators", "_load_mutants", "_check_actions", "_load_obj_func",
      "_load_variables", "_check_variable_correspondence",
      "_postprocess_normalization", "_load_postprocessing", "_load_t_length">>

ConfigResult(d, e, steps, config, models) ==
    [kind |-> "ConfigResult", d |-> d, exc |-> e, steps |-> steps,
     config |-> config, models |-> models]

\* if "fit_type" not in d: d["fit_type"] = "de"
DefaultFitType(d) ==
    IF Has(d.opts, "fit_type") THEN d
    ELSE ConfigDict(DictSet(d.opts, "fit_type", "de"), d.vars)

\* if d["fit_type"] == "bmc": d["fit_type"] = "mh"
RenameBmc(d) ==
    IF d.opts["fit_type"] = "bmc"
    THEN ConfigDict(DictSet(d.opts, "fit_type", "mh"), d.vars)
    ELSE d

\* the condition of the required-key validation
RejectsMissingKeys(d) ==
    ~(ReqUserParams \subseteq DOMAIN d.opts) /\ d.opts["fit_type"] # "check"

\* lines 213-252: self.config and the loaders; with models == "np" the
\* dataset and the NpModel come from the dictionary
LoadConfiguration(d) ==
    IF d.opts["models"] = "np" /\ ~Has(d.opts, "_custom_data")
    THEN ConfigResult(d, Exc("KeyError", "_custom_data"),
                      SubSeq(LoadingSteps, 1, 2), d, None)
    ELSE IF d.opts["models"] = "np" /\ ~Has(d.opts, "_custom_func")
    THEN ConfigResult(d, Exc("KeyError", "_custom_func"),
                      SubSeq(LoadingSteps, 1, 3), d, None)
    ELSE ConfigResult(d, None, LoadingSteps, d,
                      IF d.opts["models"] = "np"
                      THEN load_models_np(d, d.opts["_custom_data"])
                      ELSE [kind |-> "pybnf models"])

\* CustomConfiguration.__init__(self, d); the field d of the result is the
\* argument as the caller sees it afterwards (the assignments to
\* d["fit_type"] write into the caller's dictionary)
ConfigInit(d_arg) ==
    LET d0 == IF d_arg = None THEN ConfigDict(EmptyDict, EmptyDict) ELSE d_arg
    IN IF ~Has(d0.opts, "models") \/ d0.opts["models"] = ""
       THEN ConfigResult(d0,
               RaiseNamed("UnspecifiedConfigurationKeyError", {"model"}),
               << >>, None, None)
       ELSE LET d2 == RenameBmc(DefaultFitType(d0))
            IN IF RejectsMissingKeys(d2)
               THEN ConfigResult(d2,
                       RaiseNamed("UnspecifiedConfigurationKeyError",
                                  UnspecifiedKeys(d2)),
                       << >>, None, None)
               ELSE LoadConfiguration(d2)

(***************************************************************************)
(* SpecConfig: the constructor on dictionaries with any subset of the      *)
(* keys it reads.                                                          *)
(***************************************************************************)
ConfigFitTypes == {"de", "bmc", "mh", "check"}

OptionalEntries(key, values) ==
    {EmptyDict} \cup {DictSet(EmptyDict, key, v) : v \in values}

ConfigInputs ==
    {None} \cup
    {ConfigDict(DictUpdate(DictUpdate(DictUpdate(DictUpdate(DictUpdate(m, p), i), f), o), c),
                EmptyDict) :
        m \in OptionalEntries("models", {"np", "", "model.bngl"}),
        p \in OptionalEntries("population_size", {10}),
        i \in OptionalEntries("max_iterations", {5}),
        f \in OptionalEntries("fit_type", ConfigFitTypes),
        o \in OptionalEntries("objfunc", {"sos"}),
        c \in {EmptyDict,
               [k \in {"_custom_func", "_custom_data"} |->
                   IF k = "_custom_func" THEN "func" ELSE ExampleData]}}

InitConfig ==
    /\ cfg_d \in ConfigInputs /\ cfg_res = None
    /\ IdleData /\ IdleMock /\ IdleRun /\ IdleModel

ConfigConstruct ==
    /\ cfg_res = None
    /\ cfg_res' = ConfigInit(cfg_d)
    /\ UNCHANGED <<cfg_d, model_vars, data_vars, mock_vars, run_vars>>

NextConfig == ConfigConstruct

SpecConfig == InitConfig /\ [][NextConfig]_vars

\* C4: for a fit_type other than check, a dictionary lacking a required
\* user parameter is rejected with UnspecifiedConfigurationKeyError naming
\* exactly the missing keys, before any loading step; with fit_type check
\* the required-key validation does not reject it.
C4_MissingKeysRejected ==
    cfg_res # None =>
       LET d == IF cfg_d = None THEN ConfigDict(EmptyDict, EmptyDict) ELSE cfg_d
           missing == {k \in ReqUserParams : ~Has(d.opts, k)}
           is_check == Has(d.opts, "fit_type") /\ d.opts["fit_type"] = "check"
       IN /\ (missing # {} /\ ~is_check) =>
                /\ cfg_res.exc # None
                /\ cfg_res.exc.type = "UnspecifiedConfigurationKeyError"
                /\ cfg_res.steps = << >>
                /\ (Has(d.opts, "models") /\ d.opts["models"] # "")
                      => cfg_res.exc.msg = missing
          /\ (is_check /\ Has(d.opts, "models") /\ d.opts["models"] # "")
                => (cfg_res.exc = None \/ cfg_res.exc.type = "KeyError")

(***************************************************************************)
(* MockClient (custom_classes.py) and the callables handed to it.          *)
(***************************************************************************)
CallReturn(v) == [kind |-> "return", val |-> v]

CallRaise(e) == [kind |-> "raise", exc |-> e]

\* The callables submit is tried on, as Python would define them:
\*   def scale(a, k=1): return a * k
\*   def recip(a): return 2 // a
\*   def offset(a, *, k): return a + k
Funcs == {"scale", "recip", "offset"}

\* func(*args, **kwargs) called directly: Python's binding of the arguments
\* and the body of the callable
Call(func, args, kwargs) ==
    CASE func = "scale" ->
           IF Len(args) # 1 \/ ~(DOMAIN kwargs \subseteq {"k"})
           THEN CallRaise(Exc("TypeError", "scale"))
           ELSE CallReturn(args[1] * (IF Has(kwargs, "k") THEN kwargs["k"] ELSE 1))
      [] func = "recip" ->
           IF Len(args) # 1 \/ DOMAIN kwargs # {}
           THEN CallRaise(Exc("TypeError", "recip"))
           ELSE IF args[1] = 0
           THEN CallRaise(Exc("ZeroDivisionError", "integer division or modulo by zero"))
           ELSE CallReturn(2 \div args[1])
      [] func = "offset" ->
           IF Len(args) # 1 \/ DOMAIN kwargs # {"k"}
           THEN CallRaise(Exc("TypeError", "offset"))
           ELSE CallReturn(args[1] + kwargs["k"])

\* concurrent.futures.Future(); ident stands for the identity of the object
NewFuture(ident) ==
    [kind |-> "Future", id |-> ident, state |-> "PENDING", result |-> None]

\* Future.set_result(result)
set_result(future, result) ==
    [future EXCEPT !.state = "FINISHED", !.result = result]

\* Future.result() of a finished future
FutureResult(future) == future.result

\* the call inside submit: func(*args)
SubmitCall(func, args, kwargs) == Call(func, args, EmptyDict)

\* MockClient.submit(self, func, *args, **kwargs)
submit(func, args, kwargs, ident) ==
    LET future == NewFuture(ident)
        r == SubmitCall(func, args, kwargs)
    IN IF r.kind = "raise" THEN CallRaise(r.exc)
       ELSE CallReturn(set_result(future, r.val))

\* MockClient.scatter(self, data, ...)
scatter(data) == CallReturn(<<None>>)

\* MockClient.cancel(self, futures, ...)
cancel(futures) == CallReturn(None)

ArgValues == {0, 1, 2}

KwargSets == {EmptyDict, DictSet(EmptyDict, "k", 2)}

ClientCall(method, func, args, kwargs) ==
    [kind |-> "call", method |-> method, func |-> func, args |-> args, kwargs |-> kwargs]

Submit ==
    /\ Len(handles) < MaxHandles
    /\ \E func \in Funcs, a \in ArgValues, kwargs \in KwargSets :
         LET r == submit(func, <<a>>, kwargs, Len(handles) + 1)
         IN /\ submit_call' = ClientCall("submit", func, <<a>>, kwargs)
            /\ submit_out' = r
            /\ handles' = IF r.kind = "return" THEN Append(handles, r.val) ELSE handles
    /\ UNCHANGED <<aac, added, yielded, next_out, last_op>>
    /\ UNCHANGED <<data_vars, cfg_vars, model_vars, run_vars>>

Scatter ==
    /\ \E a \in ArgValues :
         /\ submit_call' = ClientCall("scatter", "", <<a>>, EmptyDict)
         /\ submit_out' = scatter(a)
    /\ UNCHANGED <<handles, aac, added, yielded, next_out, last_op>>
    /\ UNCHANGED <<data_vars, cfg_vars, model_vars, run_vars>>

Cancel ==
    /\ submit_call' = ClientCall("cancel", "", <<handles>>, EmptyDict)
    /\ submit_out' = cancel(handles)
    /\ UNCHANGED <<handles, aac, added, yielded, next_out, last_op>>
    /\ UNCHANGED <<data_vars, cfg_vars, model_vars, run_vars>>

InitMock == IdleData /\ IdleCfg /\ IdleMock /\ IdleRun /\ IdleModel

NextMock == Submit \/ Scatter \/ Cancel

SpecMock == InitMock /\ [][NextMock]_vars

\* C5: submit returns a handle that is already done and whose result is
\* the value of func(*args, **kwargs); when that direct call raises, submit
\* raises the same exception and returns no handle.
C5_SubmitEqualsDirectCall ==
    (submit_call # None /\ submit_call.method = "submit") =>
       LET direct == Call(submit_call.func, submit_call.args, submit_call.kwargs)
       IN IF direct.kind = "return"
          THEN /\ submit_out.kind = "return"
               /\ submit_out.val.state = "FINISHED"
               /\ FutureResult(submit_out.val) = direct.val
          ELSE /\ submit_out.kind = "raise"
               /\ submit_out.exc = direct.exc

(***************************************************************************)
(* new_custom_as_completed (custom_classes.py).                            *)
(***************************************************************************)
\* new_custom_as_completed.__init__(self, futures, loop, with_results, ...)
aac_init(futures, with_results) ==
    [kind |-> "new_custom_as_completed",
     futures |-> IF futures = None THEN << >> ELSE futures.items,
     with_results |-> with_results]

\* new_custom_as_completed.update(self, futures)
RECURSIVE aac_update(_, _)
aac_update(self, futures) ==
    IF Len(futures) = 0 THEN self
    ELSE aac_update([self EXCEPT !.futures = Append(@, Head(futures))], Tail(futures))

PopLast(futures) == Len(futures)

\* the position self.futures.pop(0) removes (1-based)
PopIndex(futures) == 1

\* list.pop(i), the list that remains (i is 1-based)
Without(list, i) == SubSeq(list, 1, i - 1) \o SubSeq(list, i + 1, Len(list))

\* new_custom_as_completed.__next__(self): the object afterwards, and what
\* the call returned or raised
aac_next(self) ==
    IF Len(self.futures) = 0
    THEN [self |-> self, res |-> CallRaise(Exc("StopIteration", ""))]
    ELSE LET i == PopIndex(self.futures)
             future == self.futures[i]
             rest == [self EXCEPT !.futures = Without(self.futures, i)]
         IN IF self.with_results
            THEN [self |-> rest, res |-> CallReturn(<<future, FutureResult(future)>>)]
            ELSE [self |-> rest, res |-> CallReturn(future)]

\* the handle in what __next__ returned
YieldedHandle(self, res) == IF self.with_results THEN res.val[1] ELSE res.val

\* the futures MockClient.submit returns for scale(a), a = 0, 1, ...
HandlePool ==
    [i \in 1..MaxHandles |-> submit("scale", <<i % 3>>, EmptyDict, i).val]

\* a Python list argument (None is the other value the parameter takes)
PyList(items) == [kind |-> "list", items |-> items]

\* the lists of futures handed to the iterator in one call
Batches ==
    {<< >>} \cup {<<HandlePool[i]>> : i \in 1..MaxHandles}
            \cup {<<HandlePool[i], HandlePool[j]>> : i, j \in 1..MaxHandles}

AacInit ==
    /\ aac = None
    /\ \E futures \in {PyList(b) : b \in Batches} \cup {None},
          with_results \in BOOLEAN :
         /\ aac' = aac_init(futures, with_results)
         /\ added' = IF futures = None THEN << >> ELSE futures.items
    /\ last_op' = "init"
    /\ UNCHANGED <<handles, submit_call, submit_out, yielded, next_out>>
    /\ UNCHANGED <<data_vars, cfg_vars, model_vars, run_vars>>

AacUpdate ==
    /\ aac # None
    /\ \E futures \in Batches :
         /\ Len(added) + Len(futures) <= MaxAdded
         /\ aac' = aac_update(aac, futures)
         /\ added' = added \o futures
    /\ last_op' = "update"
    /\ UNCHANGED <<handles, submit_call, submit_out, yielded, next_out>>
    /\ UNCHANGED <<data_vars, cfg_vars, model_vars, run_vars>>

AacNext ==
    /\ aac # None
    /\ LET r == aac_next(aac)
       IN /\ aac' = r.self
          /\ next_out' = r.res
          /\ yielded' = IF r.res.kind = "return"
                        THEN Append(yielded, YieldedHandle(aac, r.res))
                        ELSE yielded
    /\ last_op' = "next"
    /\ UNCHANGED <<handles, submit_call, submit_out, added>>
    /\ UNCHANGED <<data_vars, cfg_vars, model_vars, run_vars>>

InitAac ==
    /\ handles = HandlePool /\ submit_call = None /\ submit_out = None
    /\ aac = None /\ added = << >> /\ yielded = << >>
    /\ next_out = None /\ last_op = "none"
    /\ IdleData /\ IdleCfg /\ IdleRun /\ IdleModel

NextAac == AacInit \/ AacUpdate \/ AacNext

SpecAac == InitAac /\ [][NextAac]_vars

\* C6: the iterator is first in, first out. What has been yielded followed
\* by what is still held is exactly what was added, in the order added
\* (the initial list, then each update batch), so every handle is yielded
\* once and in insertion order; __next__ raises StopIteration only when
\* everything added has been yielded and otherwise returns the oldest
\* handle not yet yielded, paired with its result if with_results is set.
C6_Fifo ==
    aac # None =>
       /\ yielded \o aac.futures = added
       /\ last_op = "next" =>
            IF next_out.kind = "raise"
            THEN next_out.exc.type = "StopIteration" /\ yielded = added
            ELSE /\ Len(yielded) >= 1
                 /\ LET h == added[Len(yielded)]
                    IN next_out.val = IF aac.with_results
                                      THEN <<h, h.result>> ELSE h

\* an initial list and an update batch were drained, with results, until
\* StopIteration
C6_Witness ==
    /\ aac # None /\ aac.with_results
    /\ last_op = "next" /\ next_out.kind = "raise"
    /\ Len(yielded) = MaxAdded
    /\ yielded[1] # yielded[2]

(***************************************************************************)
(* The configuration schema (interface.py).  Of each AlgConfig_* class the *)
(* model keeps fit_type and the integer and list fields; the float         *)
(* hyperparameters are written into the dictionary and never read again.   *)
(***************************************************************************)
AlgClasses ==
    {"DifferentialEvolution", "AsynchronousDifferentialEvolution", "ScatterSearch",
     "ParticleSwarm", "AdaptiveParticleSwarm", "MetropolisHastingsMCMC",
     "ParallelTempering", "SimulatedAnnealing", "AdaptiveMCMC"}

\* the default of the field fit_type of each class
DefaultFitTypeOf(cls) ==
    CASE cls = "DifferentialEvolution" -> "de"
      [] cls = "AsynchronousDifferentialEvolution" -> "ade"
      [] cls = "ScatterSearch" -> "ss"
      [] cls = "ParticleSwarm" -> "pso"
      [] cls = "AdaptiveParticleSwarm" -> "pso"
      [] cls = "MetropolisHastingsMCMC" -> "mh"
      [] cls = "ParallelTempering" -> "pt"
      [] cls = "SimulatedAnnealing" -> "sa"
      [] cls = "AdaptiveMCMC" -> "am"

\* the fields of an instance besides fit_type
AlgFields(cls, burn_in, sample_every, adaptive) ==
    CASE cls = "MetropolisHastingsMCMC" ->
           [k \in {"sample_every", "burn_in", "credible_intervals"} |->
              CASE k = "sample_every" -> sample_every [] k = "burn_in" -> burn_in
                [] OTHER -> <<68, 95>>]
      [] cls = "ParallelTempering" ->
           [k \in {"sample_every", "burn_in", "credible_intervals", "beta", "beta_range"} |->
              CASE k = "sample_every" -> sample_every [] k = "burn_in" -> burn_in
                [] k = "credible_intervals" -> <<68, 95>> [] k = "beta" -> <<1>>
                [] OTHER -> None]
      [] cls = "AdaptiveMCMC" ->
           [k \in {"sample_every", "burn_in", "adaptive"} |->
              CASE k = "sample_every" -> sample_every [] k = "burn_in" -> burn_in
                [] OTHER -> adaptive]
      [] cls = "ScatterSearch" ->
           [k \in {"init_size", "local_min_limit", "reserve_size"} |->
              CASE k = "local_min_limit" -> 5 [] OTHER -> None]
      [] OTHER -> EmptyDict

AlgConfig(cls, fit_type, fields) ==
    [kind |-> "AlgConfig", cls |-> cls, fit_type |-> fit_type, fields |-> fields]

\* BaseModel.model_dump() of an algorithm configuration
model_dump(self) == DictSet(self.fields, "fit_type", self.fit_type)

\* AlgConfig_*.update_param_dict(self, d)
alg_update_param_dict(self, d) ==
    LET o == DictUpdate(d.opts, model_dump(self))
    IN ConfigDict(
         CASE self.cls = "ScatterSearch" ->
                LET o1 == IF o["init_size"] = None
                          THEN DictSet(o, "init_size", 10 * o["n_params"]) ELSE o
                IN IF o1["reserve_size"] = None
                   THEN DictSet(o1, "reserve_size", o1["max_iterations"]) ELSE o1
           [] self.cls = "ParallelTempering" ->
                IF self.fields["beta_range"] # None
                THEN DictDel(o, "beta") ELSE DictDel(o, "beta_range")
           [] OTHER -> o,
         d.vars)

GeneralConfig(params, algorithm_config, max_iterations) ==
    [kind |-> "GeneralConfig", param_config |-> params,
     algorithm_config |-> algorithm_config, objfunc |-> "sos",
     population_size |-> 10, max_iterations |-> max_iterations, verbosity |-> 0]

\* GeneralConfig.generate_pybnf_config_dict(self, func, data)
generate_pybnf_config_dict(self, func, data) ==
    LET hacked == [k \in {"models", "_optimization", "_custom_func", "_custom_data"} |->
                     CASE k = "models" -> "np" [] k = "_optimization" -> <<"_data">>
                       [] k = "_custom_func" -> func [] OTHER -> data]
        general == [k \in {"param_config", "algorithm_config", "objfunc",
                           "population_size", "max_iterations", "verbosity"} |-> self[k]]
        c1 == ConfigDict(DictUpdate(hacked, general), EmptyDict)
        c2 == update_param_dict(self.param_config, c1)
        c3 == alg_update_param_dict(self.algorithm_config, c2)
    IN ConfigDict(DictDel(DictDel(DictDel(c3.opts, "param_config"),
                                  "algorithm_config"), "n_params"),
                  c3.vars)

(***************************************************************************)
(* run_simple_optimization and parse_outputs (interface.py).               *)
(***************************************************************************)
AssertsUpToBurnIn(fit_type) ==
    CASE fit_type \in {"mh", "pt", "am"} -> <<"burn_in">>
      [] OTHER -> << >>

\* the keys each case of the match statement asserts to be at most
\* max_iterations, in the order asserted
BranchAsserts(fit_type) ==
    CASE fit_type \in {"mh", "pt"} -> <<"burn_in", "sample_every">>
      [] fit_type = "am" -> <<"burn_in", "sample_every", "adaptive">>
      [] OTHER -> << >>

\* the first assert statement of a case that does not pass
RECURSIVE FirstFailure(_, _)
FirstFailure(d, keys) ==
    IF Len(keys) = 0 THEN None
    ELSE IF ~Has(d.opts, Head(keys)) THEN Exc("KeyError", Head(keys))
    ELSE IF ~(d.opts[Head(keys)] <= d.opts["max_iterations"])
    THEN Exc("AssertionError", Head(keys))
    ELSE FirstFailure(d, Tail(keys))

AlgorithmOf_ade_as_de(fit_type) ==
    CASE fit_type \in {"de", "ade"} -> "DifferentialEvolution"
      [] fit_type = "ss" -> "ScatterSearch"
      [] fit_type = "pso" -> "ParticleSwarm"
      [] fit_type \in {"mh", "pt"} -> "BasicBayesMCMCAlgorithm"
      [] fit_type = "sa" -> "BasicBayesMCMCAlgorithm(sa=True)"
      [] fit_type = "am" -> "Adaptive_MCMC"
      [] OTHER -> "none"

\* the class each case constructs
AlgorithmOf(fit_type) ==
    CASE fit_type = "de" -> "DifferentialEvolution"
      [] fit_type = "ade" -> "AsynchronousDifferentialEvolution"
      [] fit_type = "ss" -> "ScatterSearch"
      [] fit_type = "pso" -> "ParticleSwarm"
      [] fit_type = "mh" -> "BasicBayesMCMCAlgorithm"
      [] fit_type = "pt" -> "BasicBayesMCMCAlgorithm"
      [] fit_type = "sa" -> "BasicBayesMCMCAlgorithm(sa=True)"
      [] fit_type = "am" -> "Adaptive_MCMC"
      [] OTHER -> "none"

\* match param_dict["fit_type"]
match_fit_type(d) ==
    LET fit_type == d.opts["fit_type"]
        failed == FirstFailure(d, BranchAsserts(fit_type))
    IN IF AlgorithmOf(fit_type) = "none"
       THEN Raising(Exc("RuntimeError", "Unknown fit type"))
       ELSE IF failed # None THEN Raising(failed)
       ELSE Returned([kind |-> "algorithm", cls |-> AlgorithmOf(fit_type)])

\* what the names of the pybnf package are bound to once custom_classes.py
\* has been imported: line 368 rebinds custom_as_completed and nothing
\* rebinds pybnf.cluster.Cluster
PybnfBinding(name) ==
    CASE name = "pybnf.algorithms.custom_as_completed" -> "new_custom_as_completed"
      [] OTHER -> name

\* <binding>(pybnf_config, "test", False, "info").client
ClusterClient(binding) ==
    IF binding = "FakeCluster" THEN [kind |-> "MockClient"]
    ELSE [kind |-> "distributed.Client"]

OutputDir == "output_dir"

SimulationsDir == "output_dir/Simulations"

ResultsDir == "output_dir/Results"

SortedParamsFile == "output_dir/Results/sorted_params_final.txt"

CredibleFiles == "output_dir/Results/credible<N>_final.txt"

\* os.makedirs(path, exist_ok=True)
makedirs(files, path) == files \cup {OutputDir, path}

\* shutil.rmtree(output_dir)
rmtree(files) == {}

\* parse_outputs(config_dir) on the files present
parse_outputs(config, files) ==
    IF SortedParamsFile \notin files
    THEN Raising(Exc("FileNotFoundError", SortedParamsFile))
    ELSE IF config.opts["fit_type"] \in {"mh", "pt"} /\ CredibleFiles \notin files
    THEN Raising(Exc("FileNotFoundError", CredibleFiles))
    ELSE Returned([kind |-> "OptimizeResult", success |-> TRUE,
                   credible |-> config.opts["fit_type"] \in {"mh", "pt"}])

RunBody_rmtree_first ==
    <<"from_x_and_y", "generate_pybnf_config_dict", "CustomConfiguration", "match",
      "makedirs_Simulations", "makedirs_Results", "Cluster", "run",
      "rmtree", "parse_outputs", "return">>

\* the statements of run_simple_optimization, in program order
RunBody ==
    <<"from_x_and_y", "generate_pybnf_config_dict", "CustomConfiguration", "match",
      "makedirs_Simulations", "makedirs_Results", "Cluster", "run",
      "parse_outputs", "rmtree", "return">>

\* the statement about to be executed
Stmt == IF rpc \in 1..Len(RunBody) THEN RunBody[rpc] ELSE "none"

Running(stmt) == exc = None /\ Stmt = stmt

HasReturned == rpc = Len(RunBody) + 1

\* the statement completes and control moves to the next one
Advance == rpc' = rpc + 1 /\ trace' = Append(trace, Stmt) /\ exc' = exc

\* the statement raises e, which leaves run_simple_optimization (no try)
Fail(e) == rpc' = rpc /\ trace' = Append(trace, Stmt) /\ exc' = e

Step(e) == IF e = None THEN Advance ELSE Fail(e)

\* data = CustomData.from_x_and_y(inputs, outputs)
RunFromXAndY ==
    /\ Running("from_x_and_y")
    /\ LET r == from_x_and_y(x_in, y_in)
       IN out' = r.ret /\ Step(r.exc)
    /\ UNCHANGED <<x_in, y_in, raised, data_arr, params_in, param_d, np_model>>
    /\ UNCHANGED <<gconf, param_dict, pybnf_config, alg, cluster_client, fs, output>>
    /\ UNCHANGED <<cfg_vars, model_vars, mock_vars>>

\* param_dict = general_config.generate_pybnf_config_dict(func, data)
RunGenerateDict ==
    /\ Running("generate_pybnf_config_dict")
    /\ param_dict' = generate_pybnf_config_dict(gconf, "func", out)
    /\ Advance
    /\ UNCHANGED <<gconf, pybnf_config, alg, cluster_client, fs, output>>
    /\ UNCHANGED <<data_vars, cfg_vars, model_vars, mock_vars>>

\* pybnf_config = CustomConfiguration(param_dict)
RunConfiguration ==
    /\ Running("CustomConfiguration")
    /\ LET r == ConfigInit(param_dict)
       IN /\ param_dict' = r.d
          /\ pybnf_config' = IF r.exc = None THEN r ELSE pybnf_config
          /\ Step(r.exc)
    /\ UNCHANGED <<gconf, alg, cluster_client, fs, output>>
    /\ UNCHANGED <<data_vars, cfg_vars, model_vars, mock_vars>>

\* match param_dict["fit_type"]: ...
RunMatch ==
    /\ Running("match")
    /\ LET r == match_fit_type(param_dict)
       IN alg' = r.ret /\ Step(r.exc)
    /\ UNCHANGED <<gconf, param_dict, pybnf_config, cluster_client, fs, output>>
    /\ UNCHANGED <<data_vars, cfg_vars, model_vars, mock_vars>>

\* os.makedirs(os.path.join(output_dir, "Simulations"), exist_ok=True)
RunMakedirsSimulations ==
    /\ Running("makedirs_Simulations")
    /\ fs' = makedirs(fs, SimulationsDir)
    /\ Advance
    /\ UNCHANGED <<gconf, param_dict, pybnf_config, alg, cluster_client, output>>
    /\ UNCHANGED <<data_vars, cfg_vars, model_vars, mock_vars>>

\* os.makedirs(os.path.join(output_dir, "Results"), exist_ok=True)
RunMakedirsResults ==
    /\ Running("makedirs_Results")
    /\ fs' = makedirs(fs, ResultsDir)
    /\ Advance
    /\ UNCHANGED <<gconf, param_dict, pybnf_config, alg, cluster_client, output>>
    /\ UNCHANGED <<data_vars, cfg_vars, model_vars, mock_vars>>

\* cluster = pybnf.cluster.Cluster(pybnf_config, "test", False, "info")
RunCluster ==
    /\ Running("Cluster")
    /\ cluster_client' = ClusterClient(PybnfBinding("pybnf.cluster.Cluster"))
    /\ Advance
    /\ UNCHANGED <<gconf, param_dict, pybnf_config, alg, fs, output>>
    /\ UNCHANGED <<data_vars, cfg_vars, model_vars, mock_vars>>

\* alg.run(cluster.client, resume=None, debug=False): the algorithm is
\* pybnf's; it either completes, leaving its result files (the credible
\* interval tables or not), or raises
RunAlgorithm ==
    /\ Running("run")
    /\ \/ /\ \E written \in {{SortedParamsFile}, {SortedParamsFile, CredibleFiles}} :
               fs' = fs \cup written
          /\ Advance
       \/ /\ fs' = fs
          /\ Fail(Exc("Exception", "alg.run"))
    /\ UNCHANGED <<gconf, param_dict, pybnf_config, alg, cluster_client, output>>
    /\ UNCHANGED <<data_vars, cfg_vars, model_vars, mock_vars>>

\* output = parse_outputs(pybnf_config.config)
RunParseOutputs ==
    /\ Running("parse_outputs")
    /\ LET r == parse_outputs(pybnf_config.config, fs)
       IN output' = r.ret /\ Step(r.exc)
    /\ UNCHANGED <<gconf, param_dict, pybnf_config, alg, cluster_client, fs>>
    /\ UNCHANGED <<data_vars, cfg_vars, model_vars, mock_vars>>

\* shutil.rmtree(pybnf_config.config["output_dir"])
RunRmtree ==
    /\ Running("rmtree")
    /\ fs' = rmtree(fs)
    /\ Advance
    /\ UNCHANGED <<gconf, param_dict, pybnf_config, alg, cluster_client, output>>
    /\ UNCHANGED <<data_vars, cfg_vars, model_vars, mock_vars>>

\* return output
RunReturn ==
    /\ Running("return")
    /\ Advance
    /\ UNCHANGED <<gconf, param_dict, pybnf_config, alg, cluster_client, fs, output>>
    /\ UNCHANGED <<data_vars, cfg_vars, model_vars, mock_vars>>

(***************************************************************************)
(* SpecRun: run_simple_optimization on every configuration of the schema.  *)
(***************************************************************************)
\* fit_type is an ordinary str field with a default: an instance may carry
\* any string
FitTypeOverrides == {"sa", "mh", "ade", "bmc", "check", "xx"}

\* pydantic.NonNegativeInt burn_in, PositiveInt sample_every and adaptive
FieldValues(cls) ==
    CASE cls \in {"MetropolisHastingsMCMC", "ParallelTempering"} ->
           {AlgFields(cls, b, s, 1) : b \in 0..(MaxIter + 1), s \in 1..(MaxIter + 1)}
      [] cls = "AdaptiveMCMC" ->
           {AlgFields(cls, b, s, a) :
               b \in 0..(MaxIter + 1), s \in 1..(MaxIter + 1), a \in 1..(MaxIter + 1)}
      [] OTHER -> {AlgFields(cls, 0, 1, 1)}

AlgConfigs ==
    UNION {{AlgConfig(cls, ft, f) :
               ft \in {DefaultFitTypeOf(cls)} \cup FitTypeOverrides, f \in FieldValues(cls)}
              : cls \in AlgClasses}

GeneralConfigs ==
    {GeneralConfig(all_equal_bounds(2, "uniform_var", 0, 1), a, mi) :
        a \in AlgConfigs, mi \in 1..MaxIter}

\* inputs and outputs: a matching pair and a pair with different row counts
RunInputs ==
    {<<NdArray(<<2, 2>>, <<0, 1, 1, 0>>), NdArray(<<2>>, <<5, 6>>)>>,
     <<NdArray(<<2, 2>>, <<0, 1, 1, 0>>), NdArray(<<1>>, <<5>>)>>}

InitRun ==
    /\ \E io \in RunInputs : x_in = io[1] /\ y_in = io[2]
    /\ out = None /\ raised = None /\ data_arr = None /\ params_in = << >>
    /\ param_d = None /\ np_model = None
    /\ gconf \in GeneralConfigs
    /\ fs \in {{}, {OutputDir}}
    /\ rpc = 1 /\ param_dict = None /\ pybnf_config = None /\ alg = None
    /\ cluster_client = None /\ trace = << >> /\ exc = None /\ output = None
    /\ IdleCfg /\ IdleMock /\ IdleModel

NextRun ==
    \/ RunFromXAndY \/ RunGenerateDict \/ RunConfiguration \/ RunMatch
    \/ RunMakedirsSimulations \/ RunMakedirsResults \/ RunCluster
    \/ RunAlgorithm \/ RunParseOutputs \/ RunRmtree \/ RunReturn

SpecRun == InitRun /\ [][NextRun]_vars

(***************************************************************************)
(* Claims about run_simple_optimization (checked under SpecRun).           *)
(***************************************************************************)
Executed(stmt) == \E k \in 1..Len(trace) : trace[k] = stmt

\* the position of a statement in the trace, 0 if it was not executed
Pos(stmt) == IF Executed(stmt) THEN CHOOSE k \in 1..Len(trace) : trace[k] = stmt ELSE 0

Times(stmt) == Cardinality({k \in 1..Len(trace) : trace[k] = stmt})

\* nothing of the run has started: no directory made, no cluster, no run()
NothingStarted ==
    /\ ~Executed("makedirs_Simulations") /\ ~Executed("makedirs_Results")
    /\ ~Executed("Cluster") /\ ~Executed("run")

\* burn_in or sample_every of the configuration dictionary exceeds max_iterations
ExceedsMaxIterations(d) ==
    \/ Has(d.opts, "burn_in") /\ d.opts["burn_in"] > d.opts["max_iterations"]
    \/ Has(d.opts, "sample_every") /\ d.opts["sample_every"] > d.opts["max_iterations"]

\* C7, as claimed: whatever sampling algorithm the configuration selects
\* (mh, pt, sa, am), a burn_in or sample_every above max_iterations means
\* that no directory is made and run() is never invoked.
C7_AnySamplerRejected ==
    (/\ param_dict # None
     /\ param_dict.opts["fit_type"] \in {"mh", "pt", "sa", "am"}
     /\ ExceedsMaxIterations(param_dict))
    => NothingStarted

\* C7, amended: when the fit_type the match statement reads is mh, pt or
\* am, a burn_in or sample_every above max_iterations means that nothing is
\* started, and the match statement itself ends in an AssertionError.
C7_CheckedSamplersRejected ==
    (/\ param_dict # None
     /\ param_dict.opts["fit_type"] \in {"mh", "pt", "am"}
     /\ ExceedsMaxIterations(param_dict))
    => /\ NothingStarted
       /\ rpc <= 4
       /\ Executed("match") => (exc # None /\ exc.type = "AssertionError")

\* a parallel-tempering configuration whose burn_in passes and whose
\* sample_every does not was rejected by the second assert
C7_Witness ==
    /\ Executed("match") /\ exc # None /\ exc.type = "AssertionError"
    /\ param_dict.opts["fit_type"] = "pt"
    /\ param_dict.opts["burn_in"] <= param_dict.opts["max_iterations"]
    /\ param_dict.opts["sample_every"] > param_dict.opts["max_iterations"]

\* C8: a call that returns has made the Simulations and Results
\* directories, then run the algorithm, then parsed the result files, then
\* removed the directory, each once and in this order; the directory and
\* both subdirectories exist while the algorithm runs; parsing never
\* follows the removal; nothing is left on disk when the call returns.
C8_StepOrder ==
    /\ HasReturned =>
         /\ output # None
         /\ fs = {}
         /\ \A st \in {"makedirs_Simulations", "makedirs_Results", "run",
                       "parse_outputs", "rmtree"} : Times(st) = 1
         /\ Pos("makedirs_Simulations") < Pos("run")
         /\ Pos("makedirs_Results") < Pos("run")
         /\ Pos("run") < Pos("parse_outputs")
         /\ Pos("parse_outputs") < Pos("rmtree")
    /\ (Executed("run") /\ ~Executed("rmtree"))
         => {OutputDir, SimulationsDir, ResultsDir} \subseteq fs
    /\ \A i, j \in 1..Len(trace) :
         (trace[i] = "rmtree" /\ trace[j] = "parse_outputs") => j < i

\* a Metropolis-Hastings run returned its result with credible intervals
C8_Witness ==
    /\ HasReturned /\ output # None /\ output.credible
    /\ alg.cls = "BasicBayesMCMCAlgorithm"

\* C9: the client handed to the algorithm's run() is the MockClient of
\* FakeCluster.
C9_RunUsesMockClient ==
    Executed("run") =>
       /\ PybnfBinding("pybnf.cluster.Cluster") = "FakeCluster"
       /\ cluster_client.kind = "MockClient"

\* the dictionary generate_pybnf_config_dict returned, before the
\* constructor of CustomConfiguration wrote into it
GeneratedDict == generate_pybnf_config_dict(gconf, "func", out)

\* the fit_type values the match statement has a case for
MatchedFitTypes == {"de", "ade", "ss", "pso", "mh", "pt", "sa", "am"}

\* the implementation each discriminant stands for
SelectionTable ==
    {<<"de", "DifferentialEvolution">>, <<"ade", "AsynchronousDifferentialEvolution">>,
     <<"ss", "ScatterSearch">>, <<"pso", "ParticleSwarm">>,
     <<"mh", "BasicBayesMCMCAlgorithm">>, <<"pt", "BasicBayesMCMCAlgorithm">>,
     <<"sa", "BasicBayesMCMCAlgorithm(sa=True)">>, <<"am", "Adaptive_MCMC">>}

\* C11, as claimed: the fit_type of the generated dictionary decides. One
\* of the eight values selects its implementation and no other; any
\* other value ends the call in the RuntimeError of the match statement, no
\* algorithm selected, nothing made on disk and nothing run.
C11_SelectedByGeneratedFitType ==
    Executed("generate_pybnf_config_dict") =>
       LET ft == GeneratedDict.opts["fit_type"]
       IN /\ (ft \in MatchedFitTypes /\ alg # None) => <<ft, alg.cls>> \in SelectionTable
          /\ ft \notin MatchedFitTypes =>
                /\ alg = None
                /\ NothingStarted
                /\ Executed("match") => (exc # None /\ exc.type = "RuntimeError")

\* C11, amended: the fit_type the match statement reads decides, and it is
\* the generated one except that the constructor of CustomConfiguration has
\* rewritten bmc to mh.  One of the eight values selects its implementation
\* whatever the class of the algorithm configuration, and an algorithm is
\* selected exactly when the match statement completes; any other value
\* ends the call in the RuntimeError of the match statement, no algorithm
\* selected, nothing made on disk and nothing run.
C11_SelectedByFitTypeRead ==
    Executed("CustomConfiguration") =>
       LET generated == GeneratedDict.opts["fit_type"]
           ft == param_dict.opts["fit_type"]
       IN /\ ft = (IF generated = "bmc" THEN "mh" ELSE generated)
          /\ alg # None <=> (Executed("match") /\ rpc > 4)
          /\ (ft \in MatchedFitTypes /\ alg # None) => <<ft, alg.cls>> \in SelectionTable
          /\ ft \notin MatchedFitTypes =>
                /\ alg = None
                /\ NothingStarted
                /\ rpc <= 4
                /\ Executed("match") => (exc # None /\ exc.type = "RuntimeError")

\* a Metropolis-Hastings configuration carrying the discriminant ade got
\* the asynchronous differential evolution, and the run went on
C11_Witness ==
    /\ gconf.algorithm_config.cls = "MetropolisHastingsMCMC"
    /\ param_dict # None /\ param_dict.opts["fit_type"] = "ade"
    /\ alg # None /\ alg.cls = "AsynchronousDifferentialEvolution"
    /\ Executed("run")

\* a configuration with an unknown discriminant was turned down by the
\* match statement
C11_WitnessUnknown ==
    /\ Executed("match") /\ exc # None /\ exc.type = "RuntimeError"
    /\ param_dict.opts["fit_type"] = "xx"

(***************************************************************************)
(* NpModel objects (custom_classes.py).  A model holds its input matrix by *)
(* reference: arrays is the store of ndarray objects and the field data of *)
(* a model object is an index into it.                                     *)
(***************************************************************************)
\* a pybnf PSet, reduced to the values of its parameters in order
PSet(values) == [kind |-> "PSet", values |-> values]

\* np.fromstring(self.pset.values_to_string(), sep="\t")
ParamsArray(pset) == NdArray(<<Len(pset.values)>>, pset.values)

Heap(arrs, objs) == [arrays |-> arrs, objs |-> objs]

\* NpModel(fun, data, n_params, pset) as an object: get_data_arr indexes
\* with a list of columns, which makes a new array
NewModel(heap, fun, data, n_params, pset) ==
    LET m == NpModelInit(fun, data, n_params, pset)
    IN Heap(Append(heap.arrays, m.data),
            Append(heap.objs, [m EXCEPT !.data = Len(heap.arrays) + 1]))

copy_copy(heap, self) == [heap |-> heap, new |-> self]

\* copy.deepcopy(self): the array is copied into a new object; the function
\* is not (deepcopy returns a function object itself)
deepcopy(heap, self) ==
    [heap |-> Heap(Append(heap.arrays, heap.arrays[self.data]), heap.objs),
     new |-> [self EXCEPT !.data = Len(heap.arrays) + 1]]

\* NpModel.copy_with_param_set(self, pset), self being object i
copy_with_param_set(heap, i, pset) ==
    LET c == deepcopy(heap, heap.objs[i])
        new == [c.new EXCEPT !.pset = pset]
    IN Heap(c.heap.arrays, Append(c.heap.objs, new))

\* NpModel.get_suffixes(self)
get_suffixes(self) ==
    Concat([k \in 1..Len(self.suffixes) |->
              <<self.suffixes[k][2]>>
              \o [j \in 1..Len(self.mutants) |->
                    self.suffixes[k][2] \o self.mutants[j].suffix]])

\* np.hstack raises ValueError when the row counts differ
hstack_mismatch(arrs) == \E k \in 1..Len(arrs) : arrs[k].shape[1] # arrs[1].shape[1]

\* CustomData.from_data_and_result(data, result)
from_data_and_result(data, result) ==
    LET nrows_data == data.shape[1]
        ncols_data == data.shape[2]
        ncols_result == result.shape[2]
        t == NdArray(<<nrows_data, 1>>, arange(nrows_data).flat)
        parts == <<t, data, result>>
    IN IF hstack_mismatch(parts)
       THEN Raising(Exc("ValueError", "hstack: array dimensions must match"))
       ELSE Returned(MakeData(hstack(parts), Colnames(ncols_data, ncols_result)))

RECURSIVE Sum(_)
Sum(seq) == IF Len(seq) = 0 THEN 0 ELSE Head(seq) + Sum(Tail(seq))

\* the user functions: each gives one output per row and output column
ModelFuns == {"rows_1d", "rows_2d", "rows_2d_two"}

\* self.fun(self.data, params)
fun_call(fun, data, params) ==
    LET n == data.shape[1]
        v(r, k) == Sum(RowOf(data, r - 1)) + params.flat[k]
    IN CASE fun = "rows_1d" -> NdArray(<<n>>, [r \in 1..n |-> v(r, 1)])
         [] fun = "rows_2d" -> NdArray(<<n, 1>>, [r \in 1..n |-> v(r, 1)])
         [] fun = "rows_2d_two" ->
              NdArray(<<n, 2>>, [q \in 1..(2 * n) |-> v(((q - 1) \div 2) + 1, ((q - 1) % 2) + 1)])

\* NpModel.execute(self, folder, filename, timeout)
execute(heap, self) ==
    IF self.pset = None
    THEN Raising(Exc("AttributeError", "values_to_string"))
    ELSE LET params == ParamsArray(self.pset)
             res == atleast_2d(fun_call(self.fun, heap.arrays[self.data], params))
             data == from_data_and_result(heap.arrays[self.data], res)
             suffixes == get_suffixes(self)
         IN IF data.exc # None THEN data
            ELSE IF Len(suffixes) # 1
            THEN Raising(Exc("ValueError", "unpack"))
            ELSE Returned([suffix \in {suffixes[1]} |-> data.ret])

\* what a model shows: its function, the values of its input matrix and
\* its parameter set
View(i) ==
    [fun |-> model_objs[i].fun, data |-> arrays[model_objs[i].data],
     pset |-> model_objs[i].pset]

Views == [i \in 1..Len(model_objs) |-> View(i)]

ModelOp(op, self, arg) == [op |-> op, self |-> self, arg |-> arg]

\* the elements of the input matrices that were written
Written == Sum([a \in 1..Len(arrays) |->
                  Cardinality({k \in 1..Len(arrays[a].flat) : arrays[a].flat[k] = 0})])

\* the parameter sets handed to models
ModelPSets == {PSet(<<1, 2>>), PSet(<<3, 4>>)}

\* the shapes of the input matrices: one row or two, one column or two
ModelShapes == {<<1, 1>>, <<2, 1>>, <<1, 2>>, <<2, 2>>}

\* one input matrix per shape, no element 0
ModelInputs == {NdArray(sh, Counting(sh[1] * sh[2], 0)) : sh \in ModelShapes}

\* new = model.copy_with_param_set(pset)
CopyWithParamSet ==
    /\ Len(model_objs) < MaxModels
    /\ \E i \in 1..Len(model_objs), pset \in ModelPSets :
         LET h == copy_with_param_set(Heap(arrays, model_objs), i, pset)
         IN /\ arrays' = h.arrays /\ model_objs' = h.objs
            /\ model_op' = ModelOp("copy", i, pset)
    /\ before' = Views
    /\ UNCHANGED <<exec_out, data_vars, cfg_vars, mock_vars, run_vars>>

\* model.data[r, c] = 0
SetItem ==
    /\ Written < MaxWrites
    /\ \E i \in 1..Len(model_objs) :
         LET a == model_objs[i].data
         IN \E k \in 1..Len(arrays[a].flat) :
              /\ arrays[a].flat[k] # 0
              /\ arrays' = [arrays EXCEPT ![a].flat[k] = 0]
              /\ model_op' = ModelOp("setitem", i, k)
    /\ before' = Views
    /\ UNCHANGED <<model_objs, exec_out, data_vars, cfg_vars, mock_vars, run_vars>>

\* model.pset = pset
SetPSet ==
    /\ \E i \in 1..Len(model_objs), pset \in ModelPSets :
         /\ model_objs[i].pset # pset
         /\ model_objs' = [model_objs EXCEPT ![i].pset = pset]
         /\ model_op' = ModelOp("set_pset", i, pset)
    /\ before' = Views
    /\ UNCHANGED <<arrays, exec_out, data_vars, cfg_vars, mock_vars, run_vars>>

\* model.execute(folder, filename, timeout)
Execute ==
    /\ \E i \in 1..Len(model_objs) :
         /\ exec_out' = execute(Heap(arrays, model_objs), model_objs[i])
         /\ model_op' = ModelOp("execute", i, None)
    /\ before' = Views
    /\ UNCHANGED <<arrays, model_objs, data_vars, cfg_vars, mock_vars, run_vars>>

(***************************************************************************)
(* SpecModel: one NpModel as CustomConfiguration._load_models builds it,   *)
(* then copies, changes and executions.                                    *)
(***************************************************************************)
InitModel ==
    /\ \E fun \in ModelFuns, x \in ModelInputs :
         LET data == from_x_and_y(x, NdArray(<<x.shape[1]>>, Counting(x.shape[1], 5))).ret
             h == NewModel(Heap(<< >>, << >>), fun, data, 2, None)
         IN arrays = h.arrays /\ model_objs = h.objs
    /\ model_op = None /\ before = << >> /\ exec_out = None
    /\ IdleData /\ IdleCfg /\ IdleMock /\ IdleRun

NextModel == CopyWithParamSet \/ SetItem \/ SetPSet \/ Execute

SpecModel == InitModel /\ [][NextModel]_vars

(***************************************************************************)
(* Claims about NpModel objects (checked under SpecModel).                 *)
(***************************************************************************)
\* C12: copy_with_param_set(pset) adds one model and changes none: every
\* model there was, the original included, shows the function, input
\* matrix and parameter set it showed before; the copy has the original's
\* function, an input matrix with the original's values, and pset.  A later
\* write into the input matrix of a model, or a new parameter set for it,
\* shows in that model and in no other, whichever of them is the copy.
C12_CopyIsIndependent ==
    /\ (model_op # None /\ model_op.op = "copy") =>
          LET i == model_op.self
              new == Len(model_objs)
          IN /\ Len(before) = new - 1
             /\ \A k \in 1..Len(before) : View(k) = before[k]
             /\ View(new).fun = before[i].fun
             /\ View(new).data = before[i].data
             /\ View(new).pset = model_op.arg
             /\ model_objs[new].data # model_objs[i].data
    /\ (model_op # None /\ model_op.op \in {"setitem", "set_pset"}) =>
          /\ Len(before) = Len(model_objs)
          /\ View(model_op.self) # before[model_op.self]
          /\ \A k \in 1..Len(model_objs) : k # model_op.self => View(k) = before[k]

\* an element of the copy's input matrix was overwritten, and the original,
\* which had the same values, still has them
C12_Witness ==
    /\ Len(model_objs) = 2
    /\ model_op # None /\ model_op.op = "setitem" /\ model_op.self = 2
    /\ before[1].data = before[2].data
    /\ View(1).data = before[1].data
    /\ View(2).data # View(1).data
    /\ View(1).pset = None /\ View(2).pset # None

\* C13: execute on a model with a parameter set returns a mapping whose one
\* key is "_data" and whose value is the table from_x_and_y makes of the
\* model's input matrix and what the function returned, be that a 1D array
\* with one value per row or a 2D array with one row per row.
C13_ExecuteLayout ==
    (/\ model_op # None /\ model_op.op = "execute"
     /\ model_objs[model_op.self].pset # None) =>
       LET self == View(model_op.self)
           y == fun_call(self.fun, self.data, ParamsArray(self.pset))
       IN /\ exec_out.exc = None
          /\ DOMAIN exec_out.ret = {"_data"}
          /\ exec_out.ret["_data"] = from_x_and_y(self.data, y).ret

(***************************************************************************)
(* Failure of the run (checked under SpecRun).                             *)
(***************************************************************************)
\* the call has ended with the exception of run() or of parse_outputs
RunOrParseFailed == exc # None /\ Stmt \in {"run", "parse_outputs"}

\* C14: when run() or parse_outputs raises, the call ends with that
\* exception: nothing was retried, nothing is executed after the failing
\* statement, no result is returned; and the working directory the call
\* made is gone when the call has ended.
C14_FailureCleansUp ==
    RunOrParseFailed =>
       /\ ~HasReturned
       /\ output = None
       /\ Times("run") = 1 /\ Times("parse_outputs") <= 1
       /\ trace[Len(trace)] = Stmt
       /\ OutputDir \notin fs

====
